---- MODULE Spec2Model ----
(***************************************************************************)
(* Wallet ledger and withdrawal lifecycle of backend/server.py.            *)
(*                                                                         *)
(* The database is four collections (users, transactions, ad_watches,      *)
(* withdrawals).  Every request is served by its own handler, an asyncio   *)
(* coroutine; hs[h] is handler h's request and position, and last is the   *)
(* answer the latest step gave (Idle when that step answered nothing).     *)
(* failed records that some request has ended in a server error.           *)
(* Handlers interleave at their awaits, and every await is one             *)
(* storage operation, atomic on the one document it touches.  One action   *)
(* of this module is one storage operation together with the synchronous   *)
(* Python code that follows it up to the next await.                       *)
(*                                                                         *)
(* Money is counted in units of 0.5 dollar, the ad reward, so the reward   *)
(* 0.5 is 1, the referral bonus 5.0 is 10 and the minimum withdrawal 10.0  *)
(* is 20.  All three and their sums are exact as binary floats.            *)
(*                                                                         *)
(* A document's uuid is opaque and is seen by nobody before the document   *)
(* is inserted, so a document's id is its position in its collection.      *)
(* A user's referral_code is derived from a uuid of its own; it is         *)
(* modelled as the user's id.                                              *)
(*                                                                         *)
(* applied is a history variable: for each user, the signed sum of the     *)
(* amounts of the wallet_balance increments the handlers have issued.      *)
(*                                                                         *)
(* Spec is the specification of the operations that write and of the       *)
(* administrator's reads; Listings, further down, is the specification of  *)
(* the three listings.                                                     *)
(***************************************************************************)
EXTENDS Integers, Sequences, FiniteSets, TLC

VARIABLES users, transactions, ad_watches, withdrawals, hs, last, applied, failed

vars == <<users, transactions, ad_watches, withdrawals, hs, last, applied, failed>>

(* ------------------------------ bounds --------------------------------- *)
\* Requests served in one behaviour; each has a handler of its own, and all
\* of them may be in flight at once.
MaxRequests == 3
\* Users who signed up with the seeded user's referral code before the
\* behaviour begins.
SeedReferrals == 2

(* ------------------------- program constants --------------------------- *)
REWARD == 1
BONUS == 10
MIN_WITHDRAWAL == 20
\* to_list(100): the most documents a listing returns.
LIST_LIMIT == 100

PENDING == "pending"
APPROVED == "approved"
REJECTED == "rejected"
WithdrawalStatus == {PENDING, APPROVED, REJECTED}

(* ------------------------------ inputs --------------------------------- *)
Handlers == 1..MaxRequests
\* Emails a signup may carry: "e1" is the seeded user's, "e2" is free.
Emails == {"e1", "e2"}
\* The emails of the users referred at the start, in the order of their
\* signups.
ReferredEmails == <<"r1", "r2", "r3", "r4">>
\* A referral code that belongs to no user, and a withdrawal id that
\* belongs to no request.
NoSuchCode == 99
NoSuchId == 0
\* Amounts a withdrawal may ask for: 5.0 dollars, below the minimum, and
\* 10.0 dollars, the minimum.
Amounts == {MIN_WITHDRAWAL - BONUS, MIN_WITHDRAWAL}

\* The ids of the administrator and of the seeded user.
ADMIN == 1
SEEDED == 2
\* The users whose tokens are used: the seeded user calls the wallet
\* operations, and both call the administrator's operation.
WalletCallers == {SEEDED}
AdminCallers == {ADMIN, SEEDED}

(* ------------------------------ documents ------------------------------ *)
\* class User: the defaults of a freshly constructed user; referred_by 0 is
\* None.
User(email) ==
    [email |-> email, wallet_balance |-> 0, total_earned |-> 0,
     ads_watched |-> 0, referred_by |-> 0, is_admin |-> FALSE]

\* class WalletTransaction
WalletTransaction(user_id, type, amount) ==
    [user_id |-> user_id, type |-> type, amount |-> amount]

\* class AdWatch
AdWatch(user_id, reward_amount) ==
    [user_id |-> user_id, reward_amount |-> reward_amount]

\* class WithdrawalRequest: status defaults to pending and processed_at to
\* None (FALSE: no processed timestamp).
WithdrawalRequest(user_id, amount) ==
    [user_id |-> user_id, amount |-> amount, status |-> PENDING,
     processed_at |-> FALSE]

\* A handler that has not been given its request yet.  seen is the status
\* of the withdrawal request as update_withdrawal read it.  wu and wr are
\* history: the users whose documents the handler has written, and the
\* number of documents of the other collections it has written.
Idle ==
    [op |-> "idle", pc |-> "idle", caller |-> 0, amount |-> 0, wid |-> 0,
     status |-> "none", email |-> "none", code |-> 0, snap |-> 0, ref |-> 0,
     seen |-> "none", wu |-> {}, wr |-> 0,
     resp |-> "none", val |-> 0]

\* A handler whose request has been answered.
Done == [Idle EXCEPT !.op = "done", !.pc = "done"]

UserIds == 1..Len(users)
WithdrawalIds == 1..Len(withdrawals)

\* Requests are given to the handlers in order: handler h is free when it
\* is idle and every handler before it has been given its request.
Free(h) ==
    /\ hs[h].op = "idle"
    /\ \A g \in Handlers : g < h => hs[g].op # "idle"

\* The handler goes on as rec, waiting on its next storage operation; the
\* step answers nothing.
Continue(h, rec) ==
    /\ hs' = [hs EXCEPT ![h] = rec]
    /\ last' = Idle

\* The handler goes on to position pc.
Goto(h, pc) == Continue(h, [hs[h] EXCEPT !.pc = pc])

\* The handler has written user uid's document.
WroteUser(rec, uid) == [rec EXCEPT !.wu = @ \cup {uid}]

\* The handler has written a document of a collection other than users.
WroteRecord(rec) == [rec EXCEPT !.wr = @ + 1]

\* What an answer keeps of its request: all of it when the request is
\* answered by its first step, else the operation, the caller and the
\* referral code.
Answer(rec) ==
    IF rec.pc = "idle" THEN rec
    ELSE [Idle EXCEPT !.op = rec.op, !.caller = rec.caller, !.code = rec.code]

\* The handler answers its request: resp is the HTTP outcome, val the
\* value returned.
Respond(h, rec, resp, val) ==
    /\ hs' = [hs EXCEPT ![h] = Done]
    /\ last' = [Answer(rec) EXCEPT !.pc = "done", !.resp = resp, !.val = val]

(* ---------------------------- storage layer ---------------------------- *)
\* db.users.update_one({"id": uid}, {"$inc": {"wallet_balance": d}}): one
\* atomic increment of the stored field.
IncWallet(us, uid, d) ==
    [us EXCEPT ![uid].wallet_balance = us[uid].wallet_balance + d]

\* {"$inc": {"wallet_balance": d, "total_earned": d}}
IncEarned(us, uid, d) ==
    [us EXCEPT ![uid].wallet_balance = us[uid].wallet_balance + d,
               ![uid].total_earned = us[uid].total_earned + d]

\* The history of increments after one of d on user uid is issued.
Applied(uid, d) == [applied EXCEPT ![uid] = applied[uid] + d]

(* ------------------------------- Init ---------------------------------- *)
\* The database as deployed: the administrator, whose is_admin flag is set
\* in the database directly, the seeded user, and SeedReferrals users who
\* signed up with the seeded user's referral code, each of whom brought
\* the seeded user one bonus and one referral_bonus transaction.
Init ==
    /\ users = << [User("admin") EXCEPT !.is_admin = TRUE],
                  [User("e1") EXCEPT !.wallet_balance = SeedReferrals * BONUS,
                                     !.total_earned = SeedReferrals * BONUS] >>
               \o [i \in 1..SeedReferrals |->
                      [User(ReferredEmails[i]) EXCEPT !.referred_by = SEEDED]]
    /\ transactions =
           [i \in 1..SeedReferrals |->
               WalletTransaction(SEEDED, "referral_bonus", BONUS)]
    /\ ad_watches = << >>
    /\ withdrawals = << >>
    /\ hs = [h \in Handlers |-> Idle]
    /\ last = Idle
    /\ failed = FALSE
    /\ applied = [u \in 1..(2 + SeedReferrals) |-> 0]

(* ------------------------------ watch_ad ------------------------------- *)
\* get_current_user: the token resolves to the caller's user document,
\* read once; current_user is that snapshot.
watch_ad_auth(h) ==
    /\ Free(h)
    /\ \E u \in WalletCallers :
         /\ Continue(h, [Idle EXCEPT !.op = "watch_ad", !.pc = "inc",
                                     !.caller = u,
                                     !.snap = users[u].wallet_balance])
    /\ UNCHANGED <<users, transactions, ad_watches, withdrawals, applied, failed>>

\* Mutant: the balance is written back from the snapshot taken at
\* authentication, a read-modify-write instead of an increment.
watch_ad_update_ReadModifyWrite(h) ==
    LET u == hs[h].caller IN
    [users EXCEPT ![u].wallet_balance = hs[h].snap + REWARD,
                  ![u].total_earned = users[u].total_earned + REWARD,
                  ![u].ads_watched = users[u].ads_watched + 1]

\* Mutant: the increment leaves total_earned out.
watch_ad_update_NoEarned(h) ==
    LET u == hs[h].caller IN
    [IncWallet(users, u, REWARD) EXCEPT
        ![u].ads_watched = users[u].ads_watched + 1]

\* Mutant: the $inc is an update_many whose filter matches every user.
watch_ad_update_Many(h) ==
    [u \in UserIds |->
        [users[u] EXCEPT !.wallet_balance = @ + REWARD,
                         !.total_earned = @ + REWARD,
                         !.ads_watched = @ + 1]]

\* The users collection after the $inc of watch_ad.
watch_ad_update(h) ==
    LET u == hs[h].caller IN
    [IncEarned(users, u, REWARD) EXCEPT
        ![u].ads_watched = users[u].ads_watched + 1]

watch_ad_inc(h) ==
    /\ hs[h].op = "watch_ad" /\ hs[h].pc = "inc"
    /\ users' = watch_ad_update(h)
    /\ applied' = Applied(hs[h].caller, REWARD)
    /\ Continue(h, WroteUser([hs[h] EXCEPT !.pc = "insert_ad"], hs[h].caller))
    /\ UNCHANGED <<transactions, ad_watches, withdrawals, failed>>

watch_ad_insert_ad(h) ==
    /\ hs[h].op = "watch_ad" /\ hs[h].pc = "insert_ad"
    /\ ad_watches' = Append(ad_watches, AdWatch(hs[h].caller, REWARD))
    /\ Continue(h, WroteRecord([hs[h] EXCEPT !.pc = "insert_tx"]))
    /\ UNCHANGED <<users, transactions, withdrawals, applied, failed>>

\* current_user.wallet_balance + reward_amount, on the user document as
\* get_current_user read it.
new_balance(rec) == rec.snap + REWARD

\* The response reports new_balance.
watch_ad_insert_tx(h) ==
    /\ hs[h].op = "watch_ad" /\ hs[h].pc = "insert_tx"
    /\ transactions' =
           Append(transactions, WalletTransaction(hs[h].caller, "ad_reward", REWARD))
    /\ Respond(h, hs[h], "200", new_balance(hs[h]))
    /\ UNCHANGED <<users, ad_watches, withdrawals, applied, failed>>

(* -------------------------- request_withdrawal -------------------------- *)
\* Mutant: only a non-positive amount is refused.
BelowMinimum_Positive(amount) == amount <= 0

\* The minimum is checked right after authentication, before any read of
\* the balance.
BelowMinimum(amount) == amount < MIN_WITHDRAWAL

request_withdrawal_auth(h) ==
    /\ Free(h)
    /\ \E u \in WalletCallers, a \in Amounts :
         /\ LET rec == [Idle EXCEPT !.op = "request_withdrawal", !.caller = u,
                                    !.amount = a]
            IN IF BelowMinimum(a)
               THEN Respond(h, rec, "400 minimum", 0)
               ELSE Continue(h, [rec EXCEPT !.pc = "find_user"])
    /\ UNCHANGED <<users, transactions, ad_watches, withdrawals, applied, failed>>

\* Mutant: a request for the whole balance is refused.
Insufficient_OrEqual(balance, amount) == balance <= amount

\* Mutant: only an overdrawn balance is refused.
Insufficient_Overdrawn(balance, amount) == balance < 0

\* user["wallet_balance"] < withdrawal_data.amount, on a fresh read.
Insufficient(balance, amount) == balance < amount

\* Mutant: a covered request is inserted without the debit.
request_withdrawal_find_user_SkipDebit(h) ==
    /\ hs[h].op = "request_withdrawal" /\ hs[h].pc = "find_user"
    /\ IF Insufficient(users[hs[h].caller].wallet_balance, hs[h].amount)
       THEN Respond(h, hs[h], "400 balance", 0)
       ELSE Goto(h, "insert")
    /\ UNCHANGED <<users, transactions, ad_watches, withdrawals, applied, failed>>

\* Mutant: the amount is debited before the balance is checked.
request_withdrawal_find_user_DebitFirst(h) ==
    /\ hs[h].op = "request_withdrawal" /\ hs[h].pc = "find_user"
    /\ users' = IncWallet(users, hs[h].caller, 0 - hs[h].amount)
    /\ applied' = Applied(hs[h].caller, 0 - hs[h].amount)
    /\ IF Insufficient(users[hs[h].caller].wallet_balance, hs[h].amount)
       THEN Respond(h, hs[h], "400 balance", 0)
       ELSE Continue(h, WroteUser([hs[h] EXCEPT !.pc = "insert"], hs[h].caller))
    /\ UNCHANGED <<transactions, ad_watches, withdrawals, failed>>

request_withdrawal_find_user(h) ==
    /\ hs[h].op = "request_withdrawal" /\ hs[h].pc = "find_user"
    /\ IF Insufficient(users[hs[h].caller].wallet_balance, hs[h].amount)
       THEN Respond(h, hs[h], "400 balance", 0)
       ELSE Goto(h, "debit")
    /\ UNCHANGED <<users, transactions, ad_watches, withdrawals, applied, failed>>

\* Mutant: the debit is taken from total_earned as well.
request_withdrawal_update_Earned(h) ==
    IncEarned(users, hs[h].caller, 0 - hs[h].amount)

\* The users collection after the $inc of request_withdrawal.
request_withdrawal_update(h) == IncWallet(users, hs[h].caller, 0 - hs[h].amount)

request_withdrawal_debit(h) ==
    /\ hs[h].op = "request_withdrawal" /\ hs[h].pc = "debit"
    /\ users' = request_withdrawal_update(h)
    /\ applied' = Applied(hs[h].caller, 0 - hs[h].amount)
    /\ Continue(h, WroteUser([hs[h] EXCEPT !.pc = "insert"], hs[h].caller))
    /\ UNCHANGED <<transactions, ad_watches, withdrawals, failed>>

\* Mutant: the request is inserted together with a "withdrawal"
\* transaction for the amount debited.
request_withdrawal_insert_Ledger(h) ==
    /\ hs[h].op = "request_withdrawal" /\ hs[h].pc = "insert"
    /\ withdrawals' =
           Append(withdrawals, WithdrawalRequest(hs[h].caller, hs[h].amount))
    /\ transactions' =
           Append(transactions,
                  WalletTransaction(hs[h].caller, "withdrawal", 0 - hs[h].amount))
    /\ Respond(h, hs[h], "200", Len(withdrawals) + 1)
    /\ UNCHANGED <<users, ad_watches, applied, failed>>

request_withdrawal_insert(h) ==
    /\ hs[h].op = "request_withdrawal" /\ hs[h].pc = "insert"
    /\ withdrawals' =
           Append(withdrawals, WithdrawalRequest(hs[h].caller, hs[h].amount))
    /\ Respond(h, hs[h], "200", Len(withdrawals) + 1)
    /\ UNCHANGED <<users, transactions, ad_watches, applied, failed>>

(* --------------------------- update_withdrawal -------------------------- *)
\* Mutant: the request is served whoever the caller is.
update_withdrawal_auth_Open(h) ==
    /\ Free(h)
    /\ \E u \in AdminCallers, w \in WithdrawalIds \cup {NoSuchId},
          s \in WithdrawalStatus :
         /\ w = NoSuchId => s = APPROVED
         /\ Continue(h, [Idle EXCEPT !.op = "update_withdrawal", !.caller = u,
                                     !.wid = w, !.status = s, !.pc = "find"])
    /\ UNCHANGED <<users, transactions, ad_watches, withdrawals, applied, failed>>

\* get_admin_user: a caller whose user document is not an admin's is
\* refused with 403 before the handler's body runs.  admin_notes, which is
\* copied into the request when given and read by nothing, is left out; a
\* request for an id that belongs to no withdrawal asks for approval.
update_withdrawal_auth(h) ==
    /\ Free(h)
    /\ \E u \in AdminCallers, w \in WithdrawalIds \cup {NoSuchId},
          s \in WithdrawalStatus :
         /\ w = NoSuchId => s = APPROVED
         /\ LET rec == [Idle EXCEPT !.op = "update_withdrawal", !.caller = u,
                                    !.wid = w, !.status = s]
            IN IF ~users[u].is_admin
               THEN Respond(h, rec, "403", 0)
               ELSE Continue(h, [rec EXCEPT !.pc = "find"])
    /\ UNCHANGED <<users, transactions, ad_watches, withdrawals, applied, failed>>

\* Mutant: a rejection goes on to the status without the refund.
update_withdrawal_find_SkipRefund(h) ==
    /\ hs[h].op = "update_withdrawal" /\ hs[h].pc = "find"
    /\ IF hs[h].wid \notin WithdrawalIds
       THEN Respond(h, hs[h], "404", 0)
       ELSE Continue(h, [hs[h] EXCEPT
                            !.ref = withdrawals[hs[h].wid].user_id,
                            !.amount = withdrawals[hs[h].wid].amount,
                            !.seen = withdrawals[hs[h].wid].status,
                            !.pc = "set"])
    /\ UNCHANGED <<users, transactions, ad_watches, withdrawals, applied, failed>>

\* db.withdrawals.find_one: the handler keeps the document it read, and
\* takes the refund's user and amount from it.
update_withdrawal_find(h) ==
    /\ hs[h].op = "update_withdrawal" /\ hs[h].pc = "find"
    /\ IF hs[h].wid \notin WithdrawalIds
       THEN Respond(h, hs[h], "404", 0)
       ELSE Continue(h, [hs[h] EXCEPT
                            !.ref = withdrawals[hs[h].wid].user_id,
                            !.amount = withdrawals[hs[h].wid].amount,
                            !.seen = withdrawals[hs[h].wid].status,
                            !.pc = IF hs[h].status = REJECTED
                                   THEN "refund" ELSE "set"])
    /\ UNCHANGED <<users, transactions, ad_watches, withdrawals, applied, failed>>

\* Mutant: the refund goes to the caller, the administrator.
update_withdrawal_update_ToCaller(h) == IncWallet(users, hs[h].caller, hs[h].amount)

\* The users collection after the refund's $inc.
update_withdrawal_update(h) == IncWallet(users, hs[h].ref, hs[h].amount)

update_withdrawal_refund(h) ==
    /\ hs[h].op = "update_withdrawal" /\ hs[h].pc = "refund"
    /\ users' = update_withdrawal_update(h)
    /\ applied' = Applied(hs[h].ref, hs[h].amount)
    /\ Continue(h, WroteUser([hs[h] EXCEPT !.pc = "set"], hs[h].ref))
    /\ UNCHANGED <<transactions, ad_watches, withdrawals, failed>>

\* {"$set": update_dict}: the status asked for and a processed_at
\* timestamp, whatever the status recorded.
update_dict(w, status) == [w EXCEPT !.status = status, !.processed_at = TRUE]

update_withdrawal_set(h) ==
    /\ hs[h].op = "update_withdrawal" /\ hs[h].pc = "set"
    /\ withdrawals' =
           [withdrawals EXCEPT ![hs[h].wid] = update_dict(@, hs[h].status)]
    /\ Respond(h, hs[h], "200", 0)
    /\ UNCHANGED <<users, transactions, ad_watches, applied, failed>>

(* ------------------------ administrator's reads ------------------------- *)
\* cursor.to_list(n): the first n documents of the cursor, all of them when
\* there are fewer.
to_list(cursor, n) == SubSeq(cursor, 1, IF Len(cursor) < n THEN Len(cursor) ELSE n)

\* The handler writes nothing, so it is one action; the answer is reduced
\* to the number of requests listed.
get_all_withdrawals(h) ==
    /\ Free(h)
    /\ \E u \in AdminCallers :
         LET rec == [Idle EXCEPT !.op = "get_all_withdrawals", !.caller = u]
         IN IF ~users[u].is_admin
            THEN Respond(h, rec, "403", 0)
            ELSE Respond(h, rec, "200", Len(to_list(withdrawals, LIST_LIMIT)))
    /\ UNCHANGED <<users, transactions, ad_watches, withdrawals, applied, failed>>

\* The handler writes nothing, so it is one action; of the four counts the
\* answer keeps pending_withdrawals.
get_admin_stats(h) ==
    /\ Free(h)
    /\ \E u \in AdminCallers :
         LET rec == [Idle EXCEPT !.op = "get_admin_stats", !.caller = u]
             pending == {w \in WithdrawalIds : withdrawals[w].status = PENDING}
         IN IF ~users[u].is_admin
            THEN Respond(h, rec, "403", 0)
            ELSE Respond(h, rec, "200", Cardinality(pending))
    /\ UNCHANGED <<users, transactions, ad_watches, withdrawals, applied, failed>>

(* ------------------------------- signup -------------------------------- *)
\* db.users.find_one({"email": ...})
EmailTaken(email) == \E u \in UserIds : users[u].email = email

\* Mutant: a code that nobody holds resolves to the seeded user.
Referrer_Default(code) == IF code \in UserIds THEN code ELSE SEEDED

\* db.users.find_one({"referral_code": ...}): the user holding the code,
\* 0 when there is none.
Referrer(code) == IF code \in UserIds THEN code ELSE 0

\* code 0 is a signup without a referral code.
signup_find_email(h) ==
    /\ Free(h)
    /\ \E e \in Emails, c \in {0, SEEDED, NoSuchCode} :
         LET rec == [Idle EXCEPT !.op = "signup", !.email = e, !.code = c]
         IN IF EmailTaken(e)
            THEN Respond(h, rec, "400 email", 0)
            ELSE Continue(h, [rec EXCEPT !.pc = IF c # 0 THEN "find_referrer"
                                                ELSE "insert_user"])
    /\ UNCHANGED <<users, transactions, ad_watches, withdrawals, applied, failed>>

signup_find_referrer(h) ==
    /\ hs[h].op = "signup" /\ hs[h].pc = "find_referrer"
    /\ Continue(h, [hs[h] EXCEPT !.ref = Referrer(hs[h].code),
                                 !.pc = IF Referrer(hs[h].code) # 0
                                        THEN "inc_referrer" ELSE "insert_user"])
    /\ UNCHANGED <<users, transactions, ad_watches, withdrawals, applied, failed>>

\* Mutant: the bonus is added to the balance and not to total_earned.
signup_update_WalletOnly(h) == IncWallet(users, hs[h].ref, BONUS)

\* The users collection after the referral bonus's $inc.
signup_update(h) == IncEarned(users, hs[h].ref, BONUS)

signup_inc_referrer(h) ==
    /\ hs[h].op = "signup" /\ hs[h].pc = "inc_referrer"
    /\ users' = signup_update(h)
    /\ applied' = Applied(hs[h].ref, BONUS)
    /\ Continue(h, WroteUser([hs[h] EXCEPT !.pc = "insert_tx"], hs[h].ref))
    /\ UNCHANGED <<transactions, ad_watches, withdrawals, failed>>

\* Mutant: the referral_bonus transaction is not written.
signup_insert_tx_Skip(h) ==
    /\ hs[h].op = "signup" /\ hs[h].pc = "insert_tx"
    /\ Goto(h, "insert_user")
    /\ UNCHANGED <<users, transactions, ad_watches, withdrawals, applied, failed>>

signup_insert_tx(h) ==
    /\ hs[h].op = "signup" /\ hs[h].pc = "insert_tx"
    /\ transactions' =
           Append(transactions, WalletTransaction(hs[h].ref, "referral_bonus", BONUS))
    /\ Continue(h, WroteRecord([hs[h] EXCEPT !.pc = "insert_user"]))
    /\ UNCHANGED <<users, ad_watches, withdrawals, applied, failed>>

\* The response carries the new user's id.
signup_insert_user(h) ==
    /\ hs[h].op = "signup" /\ hs[h].pc = "insert_user"
    /\ users' = Append(users, [User(hs[h].email) EXCEPT !.referred_by = hs[h].ref])
    /\ applied' = Append(applied, 0)
    /\ Respond(h, hs[h], "200", Len(users) + 1)
    /\ UNCHANGED <<transactions, ad_watches, withdrawals, failed>>

(* ------------------------------- failure -------------------------------- *)
\* The handler has written to the database and has a storage operation
\* still to run.
Written(rec) ==
    \/ rec.pc \in {"insert_ad", "insert_tx", "insert"}
    \/ rec.pc = "set" /\ rec.status = REJECTED
    \/ rec.pc = "insert_user" /\ rec.ref # 0

\* The storage operation the handler is waiting on raises: the request
\* ends in a server error, and nothing the handler has written is undone.
\* A failure is taken where it leaves a part of an operation behind, after
\* the handler's first write; before it, a failed request leaves the
\* database as a refused one does.
Crash(h) ==
    /\ Written(hs[h])
    /\ hs' = [hs EXCEPT ![h] = Done]
    /\ last' = [Answer(hs[h]) EXCEPT !.pc = "done", !.resp = "500"]
    /\ failed' = TRUE
    /\ UNCHANGED <<users, transactions, ad_watches, withdrawals, applied>>

(* ------------------------------- Next ---------------------------------- *)
Next ==
    \E h \in Handlers :
        \/ watch_ad_auth(h)
        \/ watch_ad_inc(h)
        \/ watch_ad_insert_ad(h)
        \/ watch_ad_insert_tx(h)
        \/ request_withdrawal_auth(h)
        \/ request_withdrawal_find_user(h)
        \/ request_withdrawal_debit(h)
        \/ request_withdrawal_insert(h)
        \/ update_withdrawal_auth(h)
        \/ update_withdrawal_find(h)
        \/ update_withdrawal_refund(h)
        \/ update_withdrawal_set(h)
        \/ get_all_withdrawals(h)
        \/ get_admin_stats(h)
        \/ signup_find_email(h)
        \/ signup_find_referrer(h)
        \/ signup_inc_referrer(h)
        \/ signup_insert_tx(h)
        \/ signup_insert_user(h)
        \/ Crash(h)

Spec == Init /\ [][Next]_vars

(* ======================================================================= *)
(*                               Listings                                  *)
(*                                                                         *)
(* The three listings read one collection each and write nothing.  What    *)
(* they return depends on the documents' ids and timestamps, which the     *)
(* operations above neither read nor compare, and on collections longer    *)
(* than the limit of a listing.  Listings is the specification of one      *)
(* listing request served on a database drawn from a family of databases   *)
(* whose documents carry their id and their timestamp as stored.           *)
(* ======================================================================= *)
\* The most documents a drawn collection holds beyond the limit of a
\* listing.
MaxBeyond == 2

\* The character codes of "+", "." and "0".
PLUS == 43
DOT == 46
ZERO == 48

\* n as two decimal digits.
Digits(n) == <<ZERO + (n \div 10), ZERO + (n % 10)>>

\* datetime.isoformat() as prepare_for_mongo stores it.  An instant is its
\* seconds and its fraction of a second, here in hundredths; the date, the
\* hour and the minute, which are the same for all instants drawn, and
\* the text of the offset after its sign are left out.  The fraction is
\* written only when it is not zero.
isoformat(t) ==
    Digits(t.sec) \o (IF t.frac = 0 THEN << >> ELSE <<DOT>> \o Digits(t.frac))
                 \o <<PLUS>>

\* datetime.fromisoformat, by which a stored timestamp is read back.
fromisoformat(str) ==
    [sec |-> (str[1] - ZERO) * 10 + (str[2] - ZERO),
     frac |-> IF str[3] = DOT
              THEN (str[4] - ZERO) * 10 + (str[5] - ZERO) ELSE 0]

RECURSIVE StrBeforeFrom(_, _, _)
\* The order of two stored strings that agree before position i: the
\* database compares them character by character, and a proper prefix
\* comes first.
StrBeforeFrom(a, b, i) ==
    IF i > Len(b) THEN FALSE
    ELSE IF i > Len(a) THEN TRUE
    ELSE IF a[i] = b[i] THEN StrBeforeFrom(a, b, i + 1)
    ELSE a[i] < b[i]

StrBefore(a, b) == StrBeforeFrom(a, b, 1)

\* collection.find({"user_id": user_id}): the matching documents, in the
\* order they were inserted.
find(collection, user_id) == SelectSeq(collection, LAMBDA d : d.user_id = user_id)

\* Entry x of a cursor comes before entry y in descending order of key.
\* The order of documents with equal keys is not specified: tie chooses
\* between the order of insertion and its reverse.
Descending(x, y, tie) ==
    \/ StrBefore(y.key, x.key)
    \/ x.key = y.key /\ (IF tie THEN x.pos < y.pos ELSE y.pos < x.pos)

\* Mutant: the cursor is sorted oldest first.
SortsBefore_Ascending(x, y, tie) == Descending(y, x, tie)

\* The order of sort(field, -1).
SortsBefore(x, y, tie) == Descending(x, y, tie)

RECURSIVE CountBefore(_, _, _, _, _)
\* The number of entries of the sorted sequence s that come before entry
\* x, given that the first lo do and those after the first hi do not.
CountBefore(s, x, tie, lo, hi) ==
    IF lo = hi THEN lo
    ELSE IF SortsBefore(s[(lo + hi + 1) \div 2], x, tie)
         THEN CountBefore(s, x, tie, (lo + hi + 1) \div 2, hi)
         ELSE CountBefore(s, x, tie, lo, (lo + hi + 1) \div 2 - 1)

RECURSIVE Merge(_, _, _)
\* Two sorted sequences of entries as one: the entries of a that come
\* before the middle entry of b merged with the first half of b, then the
\* rest of a merged with the rest of b.
Merge(a, b, tie) ==
    IF Len(b) = 0 THEN a
    ELSE IF Len(a) = 0 THEN b
    ELSE LET m == Len(b) \div 2
             k == CountBefore(a, b[m + 1], tie, 0, Len(a))
         IN IF Len(b) = 1
            THEN SubSeq(a, 1, k) \o b \o SubSeq(a, k + 1, Len(a))
            ELSE Merge(SubSeq(a, 1, k), SubSeq(b, 1, m), tie)
                 \o Merge(SubSeq(a, k + 1, Len(a)), SubSeq(b, m + 1, Len(b)), tie)

RECURSIVE MergeSort(_, _)
\* The entries in the order of SortsBefore.
MergeSort(entries, tie) ==
    IF Len(entries) <= 1 THEN entries
    ELSE Merge(MergeSort(SubSeq(entries, 1, Len(entries) \div 2), tie),
               MergeSort(SubSeq(entries, Len(entries) \div 2 + 1, Len(entries)), tie),
               tie)

\* The documents of cursor at the positions the entries name, in the
\* order of the entries.
Documents(cursor, entries) ==
    SubSeq([r \in 1..Len(entries) |-> cursor[entries[r].pos]], 1, Len(entries))

\* The entries of a cursor: each document's position with its key, keys[i]
\* being document i's value of the sort field.
Entries(keys) ==
    SubSeq([i \in 1..Len(keys) |-> [key |-> keys[i], pos |-> i]], 1, Len(keys))

\* cursor.sort(field, -1): the documents by descending key.
sort(cursor, keys, tie) == Documents(cursor, MergeSort(Entries(keys), tie))

\* The sizes of a drawn collection: a few documents, and about the limit.
Sizes == 0..2 \cup (LIST_LIMIT - 1)..(LIST_LIMIT + MaxBeyond)

\* How the instants at which the documents were constructed relate to the
\* order in which they were inserted: a handler constructs its document
\* before the awaits that precede the insert, so a document inserted
\* later may be the older one, and two may be of the same instant.
Clocks == {"forward", "backward", "shuffled", "paired"}

\* Who owns the documents: the seeded user all of them, or the seeded
\* user and the administrator by turns.
Owners == {"one", "two"}

\* The k-th instant: three to the second, at fractions .00, .05 and .50.
Instant(k) ==
    [sec |-> k \div 3,
     frac |-> IF k % 3 = 0 THEN 0 ELSE IF k % 3 = 1 THEN 5 ELSE 50]

\* The instant of the i-th of n documents under a clock.
Clock(clock, i, n) ==
    Instant(IF clock = "forward" THEN i
            ELSE IF clock = "backward" THEN n - i
            ELSE IF clock = "shuffled" THEN (7 * i) % (LIST_LIMIT + 7)
            ELSE i \div 2)

Owner(owner, i) == IF owner = "one" \/ i % 2 = 0 THEN SEEDED ELSE ADMIN

\* A database of the family: the administrator, the seeded user, and n
\* transactions and n withdrawal requests with their ids and timestamps
\* as stored.
InitListings ==
    /\ users = << [User("admin") EXCEPT !.is_admin = TRUE], User("e1") >>
    /\ \E n \in Sizes, clock \in Clocks, owner \in Owners :
          /\ transactions =
                 [i \in 1..n |->
                     WalletTransaction(Owner(owner, i), "ad_reward", REWARD)
                     @@ [id |-> i, created_at |-> isoformat(Clock(clock, i, n))]]
          /\ withdrawals =
                 [i \in 1..n |->
                     WithdrawalRequest(Owner(owner, i), MIN_WITHDRAWAL)
                     @@ [id |-> i, requested_at |-> isoformat(Clock(clock, i, n))]]
    /\ ad_watches = << >>
    /\ hs = [h \in Handlers |-> Idle]
    /\ last = Idle
    /\ failed = FALSE
    /\ applied = <<0, 0>>

\* The documents' values of the field the transactions are sorted by.
created_at(cursor) ==
    SubSeq([i \in 1..Len(cursor) |-> cursor[i].created_at], 1, Len(cursor))

\* The documents' values of the field the withdrawal requests are sorted by.
requested_at(cursor) ==
    SubSeq([i \in 1..Len(cursor) |-> cursor[i].requested_at], 1, Len(cursor))

\* find({"user_id": ...}).sort("created_at", -1).to_list(100)
get_transactions(h) ==
    /\ Free(h)
    /\ \E u \in UserIds, tie \in BOOLEAN :
         LET cursor == find(transactions, u)
         IN Respond(h, [Idle EXCEPT !.op = "get_transactions", !.caller = u],
                    "200", to_list(sort(cursor, created_at(cursor), tie), LIST_LIMIT))
    /\ UNCHANGED <<users, transactions, ad_watches, withdrawals, applied, failed>>

\* find({"user_id": ...}).sort("requested_at", -1).to_list(100)
get_my_withdrawals(h) ==
    /\ Free(h)
    /\ \E u \in UserIds, tie \in BOOLEAN :
         LET cursor == find(withdrawals, u)
         IN Respond(h, [Idle EXCEPT !.op = "get_my_withdrawals", !.caller = u],
                    "200", to_list(sort(cursor, requested_at(cursor), tie), LIST_LIMIT))
    /\ UNCHANGED <<users, transactions, ad_watches, withdrawals, applied, failed>>

\* To each request listed the email of its owner, looked up by a find_one.
with_user_email(listed) ==
    SubSeq([i \in 1..Len(listed) |->
               listed[i] @@ [user_email |-> users[listed[i].user_id].email]],
           1, Len(listed))

\* get_all_withdrawals with its answer kept whole: find().sort(
\* "requested_at", -1).to_list(100), each request with its owner's email.
get_all_withdrawals_listing(h) ==
    /\ Free(h)
    /\ \E u \in UserIds, tie \in BOOLEAN :
         LET rec == [Idle EXCEPT !.op = "get_all_withdrawals", !.caller = u]
         IN IF ~users[u].is_admin
            THEN Respond(h, rec, "403", 0)
            ELSE Respond(h, rec, "200",
                         with_user_email(
                             to_list(sort(withdrawals, requested_at(withdrawals), tie),
                                     LIST_LIMIT)))
    /\ UNCHANGED <<users, transactions, ad_watches, withdrawals, applied, failed>>

\* One listing is served in a behaviour: a listing changes nothing, so a
\* second would find what the first found.
NextListings ==
    /\ \A g \in Handlers : hs[g].op = "idle"
    /\ \E h \in Handlers :
          \/ get_transactions(h)
          \/ get_my_withdrawals(h)
          \/ get_all_withdrawals_listing(h)

Listings == InitListings /\ [][NextListings]_vars

(* ======================================================================= *)
(*                               Properties                                *)
(* ======================================================================= *)
InFlight(h) == hs[h].pc \notin {"idle", "done"}
Quiescent == \A h \in Handlers : ~InFlight(h)
RequestsMade == Cardinality({h \in Handlers : hs[h].op # "idle"})

\* The step fails handler h's request.
Crashes(h) == hs'[h] # hs[h] /\ last'.resp = "500"

\* Handler h takes the storage step it is waiting on at position pc of
\* operation op, and the operation does not fail there.
Step(h, op, pc) ==
    /\ hs[h].op = op /\ hs[h].pc = pc
    /\ hs'[h] # hs[h]
    /\ ~Crashes(h)

\* The step answers handler h's request with resp.
Answers(h, resp) == hs'[h] = Done /\ hs[h] # Done /\ last'.resp = resp

\* Handler h is given a request for operation op and takes its first step.
Begin(h, op) ==
    /\ hs[h].op = "idle"
    /\ hs'[h].op = op \/ (hs'[h] = Done /\ last'.op = op)

RECURSIVE SeqSum(_)
\* The sum of a sequence of numbers.
SeqSum(s) == IF s = << >> THEN 0 ELSE Head(s) + SeqSum(Tail(s))

\* The sum of the amounts of user u's transactions.
TxSum(u) ==
    SeqSum([i \in 1..Len(transactions) |->
               IF transactions[i].user_id = u THEN transactions[i].amount ELSE 0])

\* The sum of the amounts of user u's withdrawal requests whose status is
\* one of statuses.
HeldSum(u, statuses) ==
    SeqSum([i \in 1..Len(withdrawals) |->
               IF withdrawals[i].user_id = u /\ withdrawals[i].status \in statuses
               THEN withdrawals[i].amount ELSE 0])

\* The balance the user had when the behaviour began.
InitialBalance(u) == IF u = SEEDED THEN SeedReferrals * BONUS ELSE 0

(* ------------------------------- C1 ------------------------------------ *)
\* C1: in every reachable state, under any interleaving of the handlers,
\* every user's wallet_balance is >= 0.
\* Refuted: request_withdrawal reads the balance and debits it in two
\* storage operations, so two requests for the whole balance both pass the
\* check and both debit.
C1_NonNegativeBalance == \A u \in UserIds : users[u].wallet_balance >= 0

(* ------------------------------- C2 ------------------------------------ *)
\* C2: once a withdrawal request's status is approved or rejected, no later
\* ProcessWithdrawal call changes that status.
\* Refuted: update_withdrawal sets the status it is given whatever the
\* recorded one.
C2_TerminalIsFinal ==
    [][\A w \in WithdrawalIds :
          withdrawals[w].status \in {APPROVED, REJECTED}
              => withdrawals'[w].status = withdrawals[w].status]_vars

(* ------------------------------- C3 ------------------------------------ *)
\* C3: processing a pending request with status rejected increases the
\* owner's wallet_balance by exactly the request's amount, changes no
\* other user, and sets the status to rejected; processing it with status
\* approved sets the status to approved, and no step of it changes any
\* user.
C3_ProcessPending ==
    [][\A h \in Handlers :
          LET w == hs[h].wid IN
          /\ Step(h, "update_withdrawal", "find") /\ w \in WithdrawalIds
             => /\ hs'[h].pc = IF hs[h].status = REJECTED THEN "refund" ELSE "set"
                /\ users' = users /\ withdrawals' = withdrawals
          /\ Step(h, "update_withdrawal", "refund")
                /\ withdrawals[w].status = PENDING
             => /\ hs[h].status = REJECTED
                /\ users' = [users EXCEPT ![withdrawals[w].user_id].wallet_balance =
                                @ + withdrawals[w].amount]
                /\ withdrawals' = withdrawals
                /\ hs'[h].pc = "set"
          /\ Step(h, "update_withdrawal", "set")
                /\ withdrawals[w].status = PENDING
             => /\ withdrawals' = [withdrawals EXCEPT ![w].status = hs[h].status,
                                                      ![w].processed_at = TRUE]
                /\ users' = users
                /\ Answers(h, "200")
          /\ Begin(h, "update_withdrawal") => users' = users
          /\ hs[h].op = "update_withdrawal" /\ hs[h].status = APPROVED
                /\ hs'[h] # hs[h]
             => users' = users]_vars

\* Two requests have been made: a withdrawal, and its rejection, which has
\* just been answered.  The request is rejected and its owner has the
\* amount back.
C3_Witness ==
    /\ RequestsMade = 2 /\ Quiescent /\ ~failed
    /\ last.op = "update_withdrawal" /\ last.resp = "200"
    /\ Len(withdrawals) = 1
    /\ withdrawals[1].status = REJECTED /\ withdrawals[1].processed_at
    /\ users[withdrawals[1].user_id].wallet_balance =
           InitialBalance(withdrawals[1].user_id)

(* ------------------------------- C4 ------------------------------------ *)
\* C4: processing a request that is already approved or rejected with the
\* status it already has changes no wallet_balance and leaves the status.
\* Refuted: rejecting a rejected request refunds its amount again.
C4_ReprocessIdempotent ==
    [][\A h \in Handlers :
          /\ \/ Step(h, "update_withdrawal", "refund")
             \/ Step(h, "update_withdrawal", "set")
          /\ withdrawals[hs[h].wid].status = hs[h].status
          /\ hs[h].status \in {APPROVED, REJECTED}
          => /\ \A u \in UserIds :
                   users'[u].wallet_balance = users[u].wallet_balance
             /\ withdrawals'[hs[h].wid].status = withdrawals[hs[h].wid].status]_vars

(* ------------------------------- C5 ------------------------------------ *)
\* C5: a withdrawal request whose amount is at least the minimum and at
\* most the caller's balance when it is read is accepted; it decreases the
\* caller's wallet_balance by exactly the amount, inserts exactly one
\* pending request of that amount for the caller, without a processed
\* timestamp, and returns that request's id.  No other step of the request
\* changes a user or a withdrawal request.
C5_RequestAccepted ==
    [][\A h \in Handlers :
          LET u == hs[h].caller IN
          /\ Begin(h, "request_withdrawal")
             => users' = users /\ withdrawals' = withdrawals
          /\ Step(h, "request_withdrawal", "find_user")
                /\ hs[h].amount >= MIN_WITHDRAWAL
                /\ hs[h].amount <= users[u].wallet_balance
             => hs'[h].pc = "debit" /\ users' = users /\ withdrawals' = withdrawals
          /\ Step(h, "request_withdrawal", "debit")
             => /\ users' = [users EXCEPT ![u].wallet_balance = @ - hs[h].amount]
                /\ withdrawals' = withdrawals
                /\ hs'[h].pc = "insert"
          /\ Step(h, "request_withdrawal", "insert")
             => /\ withdrawals' =
                       Append(withdrawals,
                              [user_id |-> u, amount |-> hs[h].amount,
                               status |-> PENDING, processed_at |-> FALSE])
                /\ users' = users
                /\ Answers(h, "200")
                /\ last'.val = Len(withdrawals')]_vars

\* The only request made, a withdrawal of the seeded user's whole balance,
\* has been accepted: the request it returned is pending and the balance
\* is 0.
C5_Witness ==
    /\ RequestsMade = 1 /\ ~failed
    /\ last.op = "request_withdrawal" /\ last.resp = "200"
    /\ Len(withdrawals) = 1 /\ last.val = 1
    /\ withdrawals[1] = [user_id |-> SEEDED, amount |-> InitialBalance(SEEDED),
                         status |-> PENDING, processed_at |-> FALSE]
    /\ users[SEEDED].wallet_balance = 0

(* ------------------------------- C6 ------------------------------------ *)
\* C6: a withdrawal request for less than the minimum is refused with the
\* below-minimum error by its first step, before the balance is read and
\* whatever it is, and changes no user and no withdrawal request.
C6_BelowMinimumRefused ==
    [][\A h \in Handlers :
          /\ Begin(h, "request_withdrawal") /\ hs'[h] = Done
             => /\ last'.amount < MIN_WITHDRAWAL
                /\ last'.resp = "400 minimum"
                /\ users' = users /\ withdrawals' = withdrawals
          /\ Begin(h, "request_withdrawal") /\ hs'[h] # Done
             => hs'[h].amount >= MIN_WITHDRAWAL]_vars

\* A request below the minimum that also exceeds the caller's balance has
\* been refused with the below-minimum error.
C6_Witness ==
    /\ last.op = "request_withdrawal" /\ last.resp = "400 minimum"
    /\ last.amount < MIN_WITHDRAWAL
    /\ last.amount > users[last.caller].wallet_balance

(* ------------------------------- C7 ------------------------------------ *)
\* C7: a withdrawal request for at least the minimum and more than the
\* caller's balance when it is read is refused with the insufficient-funds
\* error and changes no user and no withdrawal request; a request is
\* debited only after its amount was found covered.
C7_InsufficientRefused ==
    [][\A h \in Handlers :
          /\ Step(h, "request_withdrawal", "find_user")
                /\ hs[h].amount >= MIN_WITHDRAWAL
                /\ hs[h].amount > users[hs[h].caller].wallet_balance
             => /\ Answers(h, "400 balance")
                /\ users' = users /\ withdrawals' = withdrawals
          /\ hs'[h].op = "request_withdrawal" /\ hs'[h].pc = "debit"
                /\ hs[h].pc # "debit"
             => /\ hs[h].pc = "find_user"
                /\ hs[h].amount <= users[hs[h].caller].wallet_balance]_vars

\* A request for the minimum has been refused for insufficient funds, and
\* the caller's balance is below the minimum.
C7_Witness ==
    /\ last.op = "request_withdrawal" /\ last.resp = "400 balance"
    /\ users[last.caller].wallet_balance < MIN_WITHDRAWAL
    /\ users[last.caller].wallet_balance >= 0
    /\ Quiescent

(* ------------------------------- C8 ------------------------------------ *)
\* C8: no increment is lost.  Once every handler has finished, each
\* user's wallet_balance is the balance the user began with plus the
\* signed sum of the increments issued on it, whatever the order in which
\* the handlers' steps were taken.
C8_NoLostUpdate ==
    Quiescent =>
        \A u \in UserIds :
            users[u].wallet_balance = InitialBalance(u) + applied[u]

\* Two ad watches and a withdrawal of the minimum have all finished, and
\* the ad watch answered last had read the balance before any of the three
\* increments: the three overlapped, and the balance has all of them.
C8_Witness ==
    /\ Quiescent /\ ~failed
    /\ last.op = "watch_ad" /\ last.val = InitialBalance(SEEDED) + REWARD
    /\ users[SEEDED].ads_watched = 2
    /\ Len(withdrawals) = 1
    /\ users[SEEDED].wallet_balance =
           InitialBalance(SEEDED) + 2 * REWARD - MIN_WITHDRAWAL

(* ------------------------------- C9 ------------------------------------ *)
\* C9: for every user, the sum of the amounts of the user's transactions
\* equals the user's wallet_balance minus the amount held in the user's
\* pending withdrawal requests.  It is stated here of the states in which
\* no handler is in flight and no request has failed, where the claim is
\* at its weakest.
\* Refuted: a withdrawal debits the balance and writes no transaction.
C9_TransactionsReconcile ==
    Quiescent /\ ~failed =>
        \A u \in UserIds :
            TxSum(u) = users[u].wallet_balance - HeldSum(u, {PENDING})

(* ------------------------------- C10 ----------------------------------- *)
\* C10: an ad watch increases the caller's wallet_balance and total_earned
\* by exactly the reward, 0.5 dollar, and ads_watched by exactly 1, and
\* appends exactly one transaction, of type ad_reward, with that amount,
\* for the caller.  No other step of the ad watch changes a user or a
\* transaction.
C10_AdWatchCredits ==
    [][\A h \in Handlers :
          LET u == hs[h].caller IN
          /\ Begin(h, "watch_ad")
             => /\ users' = users /\ transactions' = transactions
                /\ hs'[h].pc = "inc"
          /\ Step(h, "watch_ad", "inc")
             => /\ users' = [users EXCEPT
                                ![u].wallet_balance = @ + REWARD,
                                ![u].total_earned = @ + REWARD,
                                ![u].ads_watched = @ + 1]
                /\ transactions' = transactions
                /\ hs'[h].pc = "insert_ad"
          /\ Step(h, "watch_ad", "insert_ad")
             => /\ users' = users /\ transactions' = transactions
                /\ hs'[h].pc = "insert_tx"
          /\ Step(h, "watch_ad", "insert_tx")
             => /\ users' = users
                /\ transactions' =
                       Append(transactions,
                              [user_id |-> u, type |-> "ad_reward", amount |-> REWARD])
                /\ Answers(h, "200")]_vars

\* The only request made, an ad watch, has been answered: the seeded user
\* has one ad, one reward and one transaction more than at the start.
C10_Witness ==
    /\ RequestsMade = 1 /\ ~failed
    /\ last.op = "watch_ad" /\ last.resp = "200"
    /\ users[SEEDED].ads_watched = 1
    /\ users[SEEDED].wallet_balance = InitialBalance(SEEDED) + REWARD
    /\ users[SEEDED].total_earned = InitialBalance(SEEDED) + REWARD
    /\ Len(transactions) = SeedReferrals + 1
    /\ TxSum(SEEDED) = InitialBalance(SEEDED) + REWARD

(* ------------------------------- C11 ----------------------------------- *)
\* The user a signup creates is the last of the collection.
NewUser == users[Len(users)]

\* C11: a signup that carries the referral code of an existing user A
\* increases A's wallet_balance and total_earned by exactly the bonus, 5.0
\* dollars, and changes no other user; it appends exactly one transaction,
\* of type referral_bonus, with that amount, for A; and it creates the new
\* user with referred_by A, wallet_balance 0 and total_earned 0.
C11_ReferralCredits ==
    [][\A h \in Handlers :
          LET a == hs[h].code IN
          /\ Step(h, "signup", "find_referrer") /\ a \in UserIds
             => /\ hs'[h].pc = "inc_referrer" /\ hs'[h].ref = a
                /\ users' = users /\ transactions' = transactions
          /\ Step(h, "signup", "inc_referrer")
             => /\ a \in UserIds
                /\ users' = [users EXCEPT ![a].wallet_balance = @ + BONUS,
                                          ![a].total_earned = @ + BONUS]
                /\ transactions' = transactions
                /\ hs'[h].pc = "insert_tx"
          /\ Step(h, "signup", "insert_tx")
             => /\ users' = users
                /\ transactions' =
                       Append(transactions,
                              [user_id |-> a, type |-> "referral_bonus",
                               amount |-> BONUS])
                /\ hs'[h].pc = "insert_user"
          /\ Step(h, "signup", "insert_user") /\ a \in UserIds
             => /\ users' =
                       Append(users,
                              [email |-> hs[h].email, wallet_balance |-> 0,
                               total_earned |-> 0, ads_watched |-> 0,
                               referred_by |-> a, is_admin |-> FALSE])
                /\ transactions' = transactions
                /\ Answers(h, "200") /\ last'.val = Len(users')]_vars

\* The only request made, a signup with the seeded user's referral code,
\* has been answered: the seeded user has one bonus and one referral_bonus
\* transaction more than at the start, and the new user is referred by the
\* seeded user and has nothing.
C11_Witness ==
    /\ RequestsMade = 1 /\ ~failed
    /\ last.op = "signup" /\ last.resp = "200" /\ last.code = SEEDED
    /\ last.val = Len(users) /\ Len(users) = 3 + SeedReferrals
    /\ NewUser.referred_by = SEEDED /\ NewUser.wallet_balance = 0
    /\ users[SEEDED].wallet_balance = InitialBalance(SEEDED) + BONUS
    /\ users[SEEDED].total_earned = InitialBalance(SEEDED) + BONUS
    /\ Len(transactions) = SeedReferrals + 1
    /\ transactions[Len(transactions)] =
           [user_id |-> SEEDED, type |-> "referral_bonus", amount |-> BONUS]

(* ------------------------------- C12 ----------------------------------- *)
\* C12: a signup that carries a referral code which no existing user holds
\* succeeds; it creates the new user with wallet_balance 0 and no
\* referred_by, changes no existing user and appends no transaction.
C12_UnknownCodeIgnored ==
    [][\A h \in Handlers :
          LET unknown == hs[h].code # 0 /\ hs[h].code \notin UserIds IN
          /\ Begin(h, "signup")
             => users' = users /\ transactions' = transactions
          /\ Step(h, "signup", "find_referrer") /\ unknown
             => /\ hs'[h].pc = "insert_user" /\ hs'[h].ref = 0
                /\ users' = users /\ transactions' = transactions
          /\ hs[h].op = "signup" /\ unknown
             => hs'[h].pc \notin {"inc_referrer", "insert_tx"}
          /\ Step(h, "signup", "insert_user") /\ unknown
             => /\ users' =
                       Append(users,
                              [email |-> hs[h].email, wallet_balance |-> 0,
                               total_earned |-> 0, ads_watched |-> 0,
                               referred_by |-> 0, is_admin |-> FALSE])
                /\ transactions' = transactions
                /\ Answers(h, "200") /\ last'.val = Len(users')]_vars

\* The only request made, a signup with a code nobody holds, has been
\* answered: the new user has no referrer and nothing, and the seeded user
\* and the transactions are as at the start.
C12_Witness ==
    /\ RequestsMade = 1 /\ ~failed
    /\ last.op = "signup" /\ last.resp = "200" /\ last.code = NoSuchCode
    /\ Len(users) = 3 + SeedReferrals
    /\ NewUser.referred_by = 0 /\ NewUser.wallet_balance = 0
    /\ users[SEEDED].wallet_balance = InitialBalance(SEEDED)
    /\ users[SEEDED].total_earned = InitialBalance(SEEDED)
    /\ Len(transactions) = SeedReferrals

(* ------------------------------- C13 ----------------------------------- *)
\* C13: in every reachable state, under any interleaving of the signup
\* handlers, no two users have the same email.
\* Refuted: signup looks the email up and inserts the user in two storage
\* operations, and the collection has no unique index, so two signups for
\* one free email both find it free and both insert.
C13_UniqueEmails ==
    \A u, v \in UserIds : u # v => users[u].email # users[v].email

(* ------------------------------- C14 ----------------------------------- *)
\* The number of referral_bonus transactions of user a.
Bonuses(a) ==
    Cardinality({i \in 1..Len(transactions) :
                    /\ transactions[i].user_id = a
                    /\ transactions[i].type = "referral_bonus"})

\* The number of users referred by user a.
Referred(a) == Cardinality({u \in UserIds : users[u].referred_by = a})

\* C14: the referral bonus is credited once for each signup that carries a
\* valid referral code and is never taken back: when no handler is in
\* flight and no request has failed, every user has as many referral_bonus
\* transactions as there are users referred by that user; and every
\* referral_bonus transaction is a credit of the bonus, none a reversal.
C14_BonusOncePerReferral ==
    /\ Quiescent /\ ~failed => \A a \in UserIds : Bonuses(a) = Referred(a)
    /\ \A i \in 1..Len(transactions) :
          transactions[i].type = "referral_bonus" => transactions[i].amount = BONUS

\* Two signups with the seeded user's code, whose handlers overlapped, have
\* both been answered: the seeded user has two more referrals and two more
\* bonuses than at the start.
C14_Witness ==
    /\ RequestsMade = 2 /\ Quiescent /\ ~failed
    /\ last.op = "signup" /\ last.resp = "200"
    /\ Referred(SEEDED) = SeedReferrals + 2
    /\ Bonuses(SEEDED) = SeedReferrals + 2
    /\ users[SEEDED].wallet_balance = InitialBalance(SEEDED) + 2 * BONUS

(* ------------------------------- C15 ----------------------------------- *)
\* C15: no step of any operation (ad watch, signup, withdrawal request,
\* approval, rejection, or a failure of one of them) decreases any user's
\* total_earned or ads_watched.
C15_EarnedNeverDecreases ==
    [][\A u \in UserIds :
          /\ users'[u].total_earned >= users[u].total_earned
          /\ users'[u].ads_watched >= users[u].ads_watched]_vars

\* An ad watch, a withdrawal and its rejection have all been answered: the
\* seeded user has earned one reward more than at the start, and the
\* debit and the refund have left what was earned alone.
C15_Witness ==
    /\ RequestsMade = 3 /\ Quiescent /\ ~failed
    /\ Len(withdrawals) = 1 /\ withdrawals[1].status = REJECTED
    /\ users[SEEDED].ads_watched = 1
    /\ users[SEEDED].total_earned = InitialBalance(SEEDED) + REWARD
    /\ users[SEEDED].wallet_balance = InitialBalance(SEEDED) + REWARD

(* ------------------------------- C16 ----------------------------------- *)
\* The operations that depend on get_admin_user.
AdminOps == {"get_all_withdrawals", "update_withdrawal", "get_admin_stats"}

\* The caller of the request handler h is given by the step.
BeginCaller(h) == IF hs'[h] = Done THEN last'.caller ELSE hs'[h].caller

\* C16: a withdrawal request is altered only by an administrator.  No step
\* changes any user's is_admin, and a user that a signup creates has
\* is_admin false; a call of an administrator's operation (the listing of
\* all requests, the processing of a request, the statistics) by a user
\* who is not an administrator is answered 403 by its first step and
\* changes no withdrawal request and no user, and a call by an
\* administrator is not answered 403; and a step that alters a withdrawal
\* request is a step of update_withdrawal called by an administrator.
C16_AdminOnly ==
    [][/\ \A u \in UserIds : users'[u].is_admin = users[u].is_admin
       /\ \A u \in 1..Len(users') : u \notin UserIds => ~users'[u].is_admin
       /\ \A h \in Handlers :
             \A op \in AdminOps :
                Begin(h, op) =>
                   IF users[BeginCaller(h)].is_admin
                   THEN last'.resp # "403"
                   ELSE /\ Answers(h, "403")
                        /\ withdrawals' = withdrawals /\ users' = users
       /\ (\E w \in WithdrawalIds : withdrawals'[w] # withdrawals[w])
             => \E h \in Handlers :
                   /\ hs[h].op = "update_withdrawal" /\ hs'[h] # hs[h]
                   /\ users[hs[h].caller].is_admin]_vars

\* The seeded user, who is no administrator, has asked for a withdrawal
\* and then to have it rejected: the second request has been answered
\* 403, and the request is pending and the balance debited as before.
C16_Witness ==
    /\ RequestsMade = 2 /\ Quiescent /\ ~failed
    /\ last.op = "update_withdrawal" /\ last.resp = "403"
    /\ last.caller = SEEDED /\ ~users[SEEDED].is_admin
    /\ last.wid = 1 /\ last.status = REJECTED
    /\ Len(withdrawals) = 1 /\ withdrawals[1].status = PENDING
    /\ ~withdrawals[1].processed_at
    /\ users[SEEDED].wallet_balance = InitialBalance(SEEDED) - MIN_WITHDRAWAL

(* ------------------------------- C17 ----------------------------------- *)
\* The answers that are client errors of a business rule or a lookup.
ClientErrors == {"400 email", "400 minimum", "400 balance", "404"}

\* The email of the signup handler h is given by the step.
BeginEmail(h) == IF hs'[h] = Done THEN last'.email ELSE hs'[h].email

\* The step changes no collection.
NoMutation ==
    /\ users' = users /\ transactions' = transactions
    /\ withdrawals' = withdrawals /\ ad_watches' = ad_watches

\* C17: an operation that ends in a client error has changed nothing.  A
\* signup for an email that is registered when it is looked up is answered
\* 400 by that step, whatever referral code it carries; a processing of a
\* withdrawal id that no request has is answered 404 by its lookup; a
\* client error is answered only from a position the handler has reached
\* without a write, and neither the step that answers it nor any step the
\* handler took on the way there changes a user, a transaction, a
\* withdrawal request or an ad watch.
C17_FailBeforeMutation ==
    [][\A h \in Handlers :
          /\ Begin(h, "signup")
                /\ (\E u \in UserIds : users[u].email = BeginEmail(h))
             => Answers(h, "400 email") /\ NoMutation
          /\ Step(h, "update_withdrawal", "find") /\ hs[h].wid \notin WithdrawalIds
             => Answers(h, "404") /\ NoMutation
          /\ last'.resp \in ClientErrors /\ Answers(h, last'.resp)
             => hs[h].pc \in {"idle", "find", "find_user"}
          /\ hs[h].pc \in {"idle", "find", "find_user"} /\ hs'[h] # hs[h]
             => NoMutation]_vars

\* The only request made, a signup for the seeded user's email with the
\* seeded user's own referral code, has been answered 400: no bonus was
\* credited, no transaction written and no user created.
C17_Witness ==
    /\ RequestsMade = 1 /\ ~failed
    /\ last.op = "signup" /\ last.resp = "400 email"
    /\ last.email = users[SEEDED].email /\ last.code = SEEDED
    /\ Len(users) = 2 + SeedReferrals
    /\ users[SEEDED].wallet_balance = InitialBalance(SEEDED)
    /\ users[SEEDED].total_earned = InitialBalance(SEEDED)
    /\ Len(transactions) = SeedReferrals

(* ------------------------------- C19 ----------------------------------- *)
\* C19: in a rejection the refund is applied strictly before the status is
\* persisted.  A rejecting handler comes to the step that persists the
\* status only by the step that adds the amount of the request it read to
\* its owner's wallet_balance, which leaves the request as it is; the
\* status rejected is written by that later step alone, which changes no
\* user; and a failure of the handler between the two undoes nothing: the
\* request stays as it was, pending if it was pending, and the funds stay
\* refunded.
C19_RefundBeforeStatus ==
    [][/\ \A h \in Handlers :
             /\ hs'[h].op = "update_withdrawal" /\ hs'[h].pc = "set"
                   /\ hs'[h].status = REJECTED /\ hs[h].pc # "set"
                => /\ hs[h].pc = "refund"
                   /\ users' = [users EXCEPT ![hs[h].ref].wallet_balance =
                                   @ + hs[h].amount]
                   /\ withdrawals' = withdrawals
             /\ Step(h, "update_withdrawal", "set") /\ hs[h].status = REJECTED
                => /\ users' = users
                   /\ withdrawals' =
                          [withdrawals EXCEPT ![hs[h].wid].status = REJECTED,
                                              ![hs[h].wid].processed_at = TRUE]
             /\ Crashes(h) /\ hs[h].op = "update_withdrawal"
                   /\ hs[h].pc = "set" /\ hs[h].status = REJECTED
                => users' = users /\ withdrawals' = withdrawals
       /\ \A w \in WithdrawalIds :
             withdrawals'[w].status = REJECTED /\ withdrawals[w].status # REJECTED
             => \E h \in Handlers :
                   /\ Step(h, "update_withdrawal", "set")
                   /\ hs[h].wid = w /\ hs[h].status = REJECTED]_vars

\* A withdrawal was accepted and its rejection has failed between the
\* refund and the status: the request is pending, without a processed
\* timestamp, and its owner has the amount back.
C19_Witness ==
    /\ RequestsMade = 2 /\ Quiescent /\ failed
    /\ last.op = "update_withdrawal" /\ last.resp = "500"
    /\ Len(withdrawals) = 1
    /\ withdrawals[1].status = PENDING /\ ~withdrawals[1].processed_at
    /\ users[SEEDED].wallet_balance = InitialBalance(SEEDED)
    /\ applied[SEEDED] = 0

(* ------------------------------- C20 ----------------------------------- *)
\* C20: in a withdrawal request the debit is applied strictly before the
\* request is inserted.  A handler comes to the step that inserts the
\* request only by the step that takes the amount from the caller's
\* wallet_balance, which inserts nothing; a withdrawal request is inserted
\* by that later step alone, for the caller and the amount debited, and
\* the step changes no user; and a failure of the handler between the two
\* undoes nothing: the balance stays reduced and no request is recorded.
C20_DebitBeforeInsert ==
    [][/\ \A h \in Handlers :
             /\ hs'[h].op = "request_withdrawal" /\ hs'[h].pc = "insert"
                   /\ hs[h].pc # "insert"
                => /\ hs[h].pc = "debit"
                   /\ users' = [users EXCEPT ![hs[h].caller].wallet_balance =
                                   @ - hs[h].amount]
                   /\ withdrawals' = withdrawals
             /\ Crashes(h) /\ hs[h].op = "request_withdrawal"
                   /\ hs[h].pc = "insert"
                => users' = users /\ withdrawals' = withdrawals
       /\ Len(withdrawals') # Len(withdrawals)
             => \E h \in Handlers :
                   /\ Step(h, "request_withdrawal", "insert")
                   /\ users' = users
                   /\ withdrawals' =
                          Append(withdrawals,
                                 [user_id |-> hs[h].caller, amount |-> hs[h].amount,
                                  status |-> PENDING, processed_at |-> FALSE])]_vars

\* The only request made, a withdrawal of the minimum, has failed between
\* the debit and the insert: the balance is reduced by the amount and
\* there is no withdrawal request.
C20_Witness ==
    /\ RequestsMade = 1 /\ Quiescent /\ failed
    /\ last.op = "request_withdrawal" /\ last.resp = "500"
    /\ Len(withdrawals) = 0
    /\ users[SEEDED].wallet_balance = InitialBalance(SEEDED) - MIN_WITHDRAWAL
    /\ applied[SEEDED] = 0 - MIN_WITHDRAWAL

(* ------------------------------- C18 ----------------------------------- *)
\* Instant s is not after instant t.
NotAfter(s, t) == s.sec < t.sec \/ (s.sec = t.sec /\ s.frac <= t.frac)

\* C18: a listing of a user's transactions, of a user's withdrawal
\* requests or of all withdrawal requests returns documents of the
\* collection that match (the caller's own; any, for the listing of all),
\* each once; as many as match, up to 100; newest first by the timestamp
\* read back from the document; and every matching document left out is
\* no newer than any document returned.
C18_ListingNewestFirst ==
    last.resp = "200"
        /\ last.op \in {"get_transactions", "get_my_withdrawals",
                        "get_all_withdrawals"}
    => LET r == last.val
           ofTx == last.op = "get_transactions"
           coll == IF ofTx THEN transactions ELSE withdrawals
           Stamp(d) == fromisoformat(IF ofTx THEN d.created_at ELSE d.requested_at)
           match == {i \in 1..Len(coll) :
                        \/ last.op = "get_all_withdrawals"
                        \/ coll[i].user_id = last.caller}
           listed == {r[i].id : i \in 1..Len(r)}
       IN /\ listed \subseteq match
          /\ \A i \in 1..Len(r) :
                /\ r[i].user_id = coll[r[i].id].user_id
                /\ Stamp(r[i]) = Stamp(coll[r[i].id])
          /\ Cardinality(listed) = Len(r)
          /\ Len(r) = IF Cardinality(match) < LIST_LIMIT
                      THEN Cardinality(match) ELSE LIST_LIMIT
          /\ \A i \in 1..(Len(r) - 1) : NotAfter(Stamp(r[i + 1]), Stamp(r[i]))
          /\ \A m \in match \ listed :
                NotAfter(Stamp(coll[m]), Stamp(r[Len(r)]))

\* The seeded user has listed its transactions, of which it has more than
\* the limit, inserted out of the order of their timestamps: the listing
\* has 100 of them, and the first is neither the first nor the last
\* inserted.
C18_Witness ==
    /\ last.op = "get_transactions" /\ last.resp = "200"
    /\ last.caller = SEEDED
    /\ Len(find(transactions, SEEDED)) = LIST_LIMIT + MaxBeyond
    /\ Len(last.val) = LIST_LIMIT
    /\ last.val[1].id \notin {1, Len(transactions)}
    /\ last.val[1].created_at # last.val[2].created_at

(* ------------------------------- C21 ----------------------------------- *)
\* The number of documents of a collection that a step creates or changes.
Changed(old, new) ==
    IF new = old THEN 0
    ELSE Cardinality({i \in 1..Len(new) : i > Len(old) \/ new[i] # old[i]})

\* The operation of the request handler h steps for.
CallOp(h) ==
    IF hs[h].op # "idle" THEN hs[h].op
    ELSE IF hs'[h] = Done THEN last'.op ELSE hs'[h].op

\* The users whose documents handler h's call has created or changed, this
\* step included.
TouchedUsers(h) ==
    IF users' = users THEN hs[h].wu
    ELSE hs[h].wu
         \cup {u \in 1..Len(users') : u > Len(users) \/ users'[u] # users[u]}

\* The number of documents of the other collections that handler h's call
\* has created or changed, this step included.  No operation writes such a
\* document twice.
TouchedRecords(h) ==
    hs[h].wr + Changed(transactions, transactions')
             + Changed(ad_watches, ad_watches')
             + Changed(withdrawals, withdrawals')

\* A step of handler h, after which its call has written the user
\* documents us and rs documents of the other collections, removes no
\* document and writes at most one; the handler's history has what its
\* call has written so far; and these are at most maxu user documents
\* and maxr others.
TouchesWithin(h, us, rs, maxu, maxr) ==
    /\ Len(users') >= Len(users)
    /\ Len(transactions') >= Len(transactions)
    /\ Len(ad_watches') >= Len(ad_watches)
    /\ Len(withdrawals') >= Len(withdrawals)
    /\ Cardinality(us \ hs[h].wu) + rs - hs[h].wr <= 1
    /\ hs'[h] # Done => hs'[h].wu = us /\ hs'[h].wr = rs
    /\ Cardinality(us) <= maxu
    /\ rs <= maxr

\* C21 as stated: over a call, every operation creates or changes at most
\* one user document and at most one document that is not a user's, and
\* leaves all the others as they are.
\* Refuted: an ad watch inserts an ad_watches document and a transaction,
\* and a signup with a valid referral code updates the referrer and
\* inserts the new user.
C21_OneUserOneRecord ==
    [][\A h \in Handlers :
          hs'[h] # hs[h]
          => TouchesWithin(h, TouchedUsers(h), TouchedRecords(h), 1, 1)]_vars

\* C21 as amended: every storage step creates or changes at most one
\* document and removes none; over a call, a signup creates or changes at
\* most two user documents and every other operation at most one, an ad
\* watch creates at most two documents that are not users' and every
\* other operation creates or changes at most one; all other documents
\* are left as they are.
C21_TouchesPerCall ==
    [][\A h \in Handlers :
          hs'[h] # hs[h]
          => TouchesWithin(h, TouchedUsers(h), TouchedRecords(h),
                           IF CallOp(h) = "signup" THEN 2 ELSE 1,
                           IF CallOp(h) = "watch_ad" THEN 2 ELSE 1)]_vars

\* Two requests have been made and answered, an ad watch and a signup
\* with the seeded user's referral code: the signup wrote the seeded
\* user's document and the new user's, and the ad watch an ad_watches
\* document and a transaction.
C21_Witness ==
    /\ RequestsMade = 2 /\ Quiescent /\ ~failed
    /\ Len(users) = 2 + SeedReferrals + 1
    /\ users[Len(users)].referred_by = SEEDED
    /\ users[SEEDED].ads_watched = 1
    /\ users[SEEDED].total_earned = InitialBalance(SEEDED) + BONUS + REWARD
    /\ Len(ad_watches) = 1
    /\ Len(transactions) = SeedReferrals + 2

C23_MoneyConserved ==
    Quiescent /\ ~failed =>
        \A u \in UserIds :
            users[u].wallet_balance + HeldSum(u, {PENDING, APPROVED})
                = users[u].total_earned

(* ------------------------------- C24 ----------------------------------- *)
\* C24: three requests are made, none fails: a withdrawal request, and
\* two calls of update_withdrawal on it, one approving and one rejecting,
\* that overlap.  Handler h, the later of the two to write the status,
\* read the request while it was pending and writes its status over the
\* other call's.  After that step both calls have finished, and the owner
\* has the amount back, once, if and only if the status recorded is
\* rejected.
\* Refuted: the rejecting call refunds and records rejected, and the
\* approving call, which read the request before that, records approved
\* over it: the request ends approved and refunded.
C24_ConcurrentOutcomeConsistent ==
    [][\A h \in Handlers :
          LET w == hs[h].wid
              owner == withdrawals[w].user_id
          IN /\ Step(h, "update_withdrawal", "set")
             /\ RequestsMade = 3 /\ Len(withdrawals) = 1 /\ ~failed
             /\ \A g \in Handlers \ {h} : hs[g] = Done
             /\ hs[h].seen = PENDING
             /\ {hs[h].status, withdrawals[w].status} = {APPROVED, REJECTED}
             => /\ Quiescent'
                /\ users'[owner].wallet_balance =
                       InitialBalance(owner) - withdrawals[w].amount
                       + IF withdrawals'[w].status = REJECTED
                         THEN withdrawals[w].amount ELSE 0]_vars

(* ------------------------------- C25 ----------------------------------- *)
\* C25: the new_balance an ad watch returns is the caller's stored
\* wallet_balance right after the call's credit is applied, whatever was
\* applied to the balance since the handler authenticated.  The value
\* returned is new_balance of the handler's record, which no step after
\* authentication changes; it is compared with the stored balance at the
\* step that applies the credit.
\* Refuted: new_balance is computed from the user document read at
\* authentication, so it misses every increment applied between that
\* read and the credit.
C25_NewBalanceIsStored ==
    [][\A h \in Handlers :
          Step(h, "watch_ad", "inc")
          => /\ hs'[h].snap = hs[h].snap
             /\ new_balance(hs'[h]) = users'[hs[h].caller].wallet_balance]_vars

====
